---- MODULE Spec2Model ----
(***************************************************************************)
(* Board-game rules RAG service: the collection store                      *)
(* (src/src/vector_store.py), the answer composer (src/src/rag_agent.py)   *)
(* and the HTTP surface (src/src/api.py).                                  *)
(*                                                                         *)
(* The store is idle between operations; an operation runs to completion   *)
(* as one step and leaves its outcome in `last`; Return hands the outcome  *)
(* to the caller and the store is idle again.                              *)
(*                                                                         *)
(* Collaborators: the vector database keeps one bag of documents per       *)
(* collection name and answers a similarity search with the k nearest      *)
(* documents in ascending distance; the text generator is an opaque        *)
(* function of the rendered prompt.  Operations take the set F of          *)
(* collaborator calls that raise during the operation: Spec runs every     *)
(* operation with F = {}, SpecFault lets a call fail.                      *)
(***************************************************************************)
EXTENDS Integers, Sequences, FiniteSets, TLC

VARIABLES collections, stored, vectorstore, rebuilt, last, ingest, chat, cli, serve

vars == <<collections, stored, vectorstore, rebuilt, last, ingest, chat, cli, serve>>

(* State of the other components (document ingestion, the interactive      *)
(* loop, the command line, the request loop of the server), untouched by   *)
(* the single operations of the collection store and the answer composer.  *)
aside == <<ingest, chat, cli, serve>>

----------------------------------------------------------------------------
(* Bounds and input sets *)

MaxDocs == 2
MaxK == 2

Games == {"catan", "monopoly"}
Questions == {"win", "jail"}

D1 == [page_content |-> "c1", metadata |-> "m1"]
D2 == [page_content |-> "c2", metadata |-> "m2"]
DocOrder == <<D1, D2>>
Docs == {DocOrder[i] : i \in 1..Len(DocOrder)}

(* The document lists handed to create_vectorstore: at most MaxDocs chunks  *)
(* (a chunk may repeat; the order of the list does not reach the store).   *)
DocLists ==
  {s \in UNION {[1..n -> 1..Len(DocOrder)] : n \in 0..MaxDocs} :
     \A i \in 1..Len(s) : \A j \in 1..Len(s) : i < j => s[i] <= s[j]}

DocsOf(s) == [i \in 1..Len(s) |-> DocOrder[s[i]]]

(* The ways the collaborator calls of one operation may raise: none does,  *)
(* or, when failures are on, one of the calls the operation makes does.    *)
Faults(calls, on) == IF on THEN {{}} \cup {{c} : c \in calls} ELSE {{}}

(* Optional values: None is the empty set, Some(x) the singleton. *)
None == {}
Some(x) == {x}
The(o) == CHOOSE x \in o : TRUE

Min(a, b) == IF a <= b THEN a ELSE b

Range(s) == {s[i] : i \in 1..Len(s)}

Perms(S) == {s \in [1..Cardinality(S) -> S] : Range(s) = S}

----------------------------------------------------------------------------
(* Bags of documents: the content of a persisted collection *)

EmptyBag == [d \in Docs |-> 0]
BagOf(s) == [d \in Docs |-> Cardinality({i \in 1..Len(s) : s[i] = d})]
BagPlus(a, b) == [d \in Docs |-> a[d] + b[d]]

RECURSIVE SumOver(_, _)
SumOver(b, s) == IF s = <<>> THEN 0 ELSE b[Head(s)] + SumOver(b, Tail(s))
BagSize(b) == SumOver(b, DocOrder)

----------------------------------------------------------------------------
(* The handle cache: a Python dict, i.e. an insertion-ordered mapping      *)
(* game name -> handle, kept as a sequence of entries.                     *)

Has(cache, g) == \E i \in 1..Len(cache) : cache[i].game = g
Get(cache, g) == cache[CHOOSE i \in 1..Len(cache) : cache[i].game = g].handle
Keys(cache) == [i \in 1..Len(cache) |-> cache[i].game]
Put(cache, g, h) ==
  IF Has(cache, g)
    THEN [i \in 1..Len(cache) |->
            IF cache[i].game = g THEN [game |-> g, handle |-> h] ELSE cache[i]]
    ELSE Append(cache, [game |-> g, handle |-> h])
Del(cache, g) == SelectSeq(cache, LAMBDA e : e.game # g)

(* A newly constructed handle object for game g.  Handles are told apart   *)
(* by an identity; the new one takes the least identity no other game's    *)
(* cached handle has (the handle it replaces in the cache, if any, is      *)
(* dropped with the assignment).                                           *)
NewHandle(cache, g) ==
  CHOOSE h \in 1..(Len(cache) + 1) :
    /\ \A i \in 1..Len(cache) : cache[i].game # g => cache[i].handle # h
    /\ \A h2 \in 1..(h - 1) :
         \E i \in 1..Len(cache) : cache[i].game # g /\ cache[i].handle = h2

----------------------------------------------------------------------------
(* Vector-store collaborator: distance of a document to a question, and    *)
(* the k nearest documents of a collection in ascending distance.          *)

Dist(q, d) ==
  IF q = "win"
    THEN (IF d = D1 THEN 1 ELSE 5)
    ELSE (IF d = D1 THEN 4 ELSE 2)

RECURSIVE InsertByDist(_, _, _)
InsertByDist(q, s, d) ==
  IF s = <<>> THEN <<d>>
  ELSE IF Dist(q, d) < Dist(q, Head(s)) THEN <<d>> \o s
  ELSE <<Head(s)>> \o InsertByDist(q, Tail(s), d)

RECURSIVE Ranked(_, _)
Ranked(q, s) ==
  IF s = <<>> THEN <<>> ELSE InsertByDist(q, Ranked(q, Tail(s)), Head(s))

RECURSIVE Copies(_, _)
Copies(x, n) == IF n = 0 THEN <<>> ELSE <<x>> \o Copies(x, n - 1)

RECURSIVE Expand(_, _, _)
Expand(bag, q, s) ==
  IF s = <<>> THEN <<>>
  ELSE Copies(<<Head(s), Dist(q, Head(s))>>, bag[Head(s)]) \o Expand(bag, q, Tail(s))

Take(s, k) == SubSeq(s, 1, Min(k, Len(s)))

(* Chroma.similarity_search_with_score: a list of (document, score). *)
SimilaritySearchWithScore(bag, q, k) == Take(Expand(bag, q, Ranked(q, DocOrder)), k)

----------------------------------------------------------------------------
(* VectorStoreManager.  st = [cols, docs, cache] is the manager's state:   *)
(* the persisted collection names, their documents, and self.vectorstore.  *)
(* Each method yields [st, exc, ...]: the state it leaves and the          *)
(* exception it raises ("" when it returns normally).                      *)

_collection_exists_always(st, g) == TRUE
_collection_exists(st, g) == g \in st.cols

_delete_collection_stale(st, g, F) ==
  IF "delete_collection" \in F \/ g \notin st.cols
    THEN st
    ELSE [cols |-> st.cols \ {g},
          docs |-> [st.docs EXCEPT ![g] = EmptyBag],
          cache |-> st.cache]

_delete_collection_keep(st, g, F) ==
  IF "delete_collection" \in F \/ g \notin st.cols
    THEN st
    ELSE [cols |-> st.cols \ {g},
          docs |-> st.docs,
          cache |-> Del(st.cache, g)]

_delete_collection(st, g, F) ==
  IF "delete_collection" \in F \/ g \notin st.cols
    THEN st
    ELSE [cols |-> st.cols \ {g},
          docs |-> [st.docs EXCEPT ![g] = EmptyBag],
          cache |-> Del(st.cache, g)]

(* list_collections catches every exception and returns []: it never raises. *)
list_collections(st, names, F) ==
  [exc |-> "", names |-> IF "list_collections" \in F THEN <<>> ELSE names]

load_vectorstore_uncached(st, g, F) ==
  IF ~_collection_exists(st, g)
    THEN [st |-> st, exc |-> "ValueError", handle |-> 0]
  ELSE IF Has(st.cache, g)
    THEN [st |-> st, exc |-> "", handle |-> Get(st.cache, g)]
  ELSE [st |-> st, exc |-> "", handle |-> NewHandle(st.cache, g)]

load_vectorstore(st, g, F) ==
  IF ~_collection_exists(st, g)
    THEN [st |-> st, exc |-> "ValueError", handle |-> 0]
  ELSE IF Has(st.cache, g)
    THEN [st |-> st, exc |-> "", handle |-> Get(st.cache, g)]
  ELSE LET h == NewHandle(st.cache, g)
       IN [st |-> [st EXCEPT !.cache = Put(@, g, h)], exc |-> "", handle |-> h]

(* Chroma.from_documents: get-or-create the named collection, embed the    *)
(* documents and add them to it.                                           *)
from_documents(st, g, documents, F) ==
  LET made == [st EXCEPT !.cols = @ \cup {g}]
  IN IF "embed" \in F
       THEN [st |-> made, exc |-> "BackendError", handle |-> 0]
       ELSE [st |-> [made EXCEPT !.docs[g] = BagPlus(@, BagOf(documents))],
             exc |-> "", handle |-> NewHandle(st.cache, g)]

(* `if self._collection_exists(game_name)` ... `else: return self.load_vectorstore(...)` *)
KeepsExistingNever(exists, force_rebuild) == FALSE
KeepsExisting(exists, force_rebuild) == exists /\ ~force_rebuild

(* `self.vectorstore[game_name] = vectorstore` once from_documents returned *)
CacheCreated(r, g) ==
  IF r.exc # "" THEN r ELSE [r EXCEPT !.st.cache = Put(@, g, r.handle)]

create_vectorstore(st, g, documents, force_rebuild, F) ==
  IF KeepsExisting(_collection_exists(st, g), force_rebuild)
    THEN load_vectorstore(st, g, F)
    ELSE CacheCreated(
           from_documents(IF _collection_exists(st, g) /\ force_rebuild
                            THEN _delete_collection(st, g, F) ELSE st,
                          g, documents, F),
           g)

(* `self.vectorstore[game_name].similarity_search_with_score(query, k)` *)
SearchCached(st1, g, q, k, F) ==
  IF ~Has(st1.cache, g)
    THEN [st |-> st1, exc |-> "KeyError", results |-> <<>>]
  ELSE IF "embed" \in F \/ g \notin st1.cols
    THEN [st |-> st1, exc |-> "BackendError", results |-> <<>>]
  ELSE [st |-> st1, exc |-> "",
        results |-> SimilaritySearchWithScore(st1.docs[g], q, k)]

similarity_search(st, g, q, k, F) ==
  SearchCached(IF ~Has(st.cache, g) /\ _collection_exists(st, g)
                 THEN load_vectorstore(st, g, F).st ELSE st,
               g, q, k, F)

(* load_all_vectorstores: load every listed collection that is not cached. *)
RECURSIVE LoadEach(_, _, _)
LoadNext(r, names, F) ==
  IF r.exc # "" THEN [st |-> r.st, exc |-> r.exc] ELSE LoadEach(r.st, Tail(names), F)

LoadEach(st, names, F) ==
  IF names = <<>> THEN [st |-> st, exc |-> ""]
  ELSE IF Has(st.cache, Head(names)) THEN LoadEach(st, Tail(names), F)
  ELSE LoadNext(load_vectorstore(st, Head(names), F), names, F)

load_all_vectorstores(st, names, F) ==
  LoadEach(st, list_collections(st, names, F).names, F)

(* `if result:` of search_all_games: a game is kept iff its result is not empty. *)
KeepResultAlways(result) == TRUE
KeepResult(result) == result # <<>>

(* The loop of search_all_games over self.vectorstore.keys(): `all` is the *)
(* insertion-ordered dict all_results, `searched` the games searched.      *)
RECURSIVE SearchEach(_, _, _, _, _, _)
SearchNext(r, keys, q, k, F, acc) ==
  IF r.exc # ""
    THEN [st |-> r.st, exc |-> r.exc, all |-> <<>>,
          searched |-> Append(acc.searched, Head(keys))]
    ELSE SearchEach(r.st, Tail(keys), q, k, F,
           [st |-> r.st, exc |-> "",
            all |-> IF KeepResult(r.results)
                      THEN Append(acc.all, [game |-> Head(keys), result |-> r.results])
                      ELSE acc.all,
            searched |-> Append(acc.searched, Head(keys))])

SearchEach(st, keys, q, k, F, acc) ==
  IF keys = <<>> THEN acc
  ELSE SearchNext(similarity_search(st, Head(keys), q, k, F), keys, q, k, F, acc)

SearchLoaded(l, q, k, F) ==
  IF l.exc # ""
    THEN [st |-> l.st, exc |-> l.exc, all |-> <<>>, searched |-> <<>>]
    ELSE SearchEach(l.st, Keys(l.st.cache), q, k, F,
           [st |-> l.st, exc |-> "", all |-> <<>>, searched |-> <<>>])

search_all_games(st, names, q, k, F) ==
  SearchLoaded(load_all_vectorstores(st, names, F), q, k, F)

----------------------------------------------------------------------------
(* RAGAgent.  The text generator's answer is an opaque function of the     *)
(* rendered prompt (game_name, context, question).                         *)

DefaultSearchK == 3

Separator == "\n\n--\n\n"

(* "\n\n--\n\n".join(page contents) *)
RECURSIVE _format_documents(_)
_format_documents(contents) ==
  IF contents = <<>> THEN <<>>
  ELSE IF Len(contents) = 1 THEN contents
  ELSE <<Head(contents), Separator>> \o _format_documents(Tail(contents))

(* `if not results:` of query *)
NoResultsNever(results) == FALSE
NoResults(results) == results = <<>>

Generated(g, context, q) == <<"generated", g, context, q>>
Canned(g) == <<"No relevant documents found for", g>>

DocsIn(results) == [i \in 1..Len(results) |-> results[i][1].page_content]

SourcesOf(results) ==
  [i \in 1..Len(results) |->
     [content |-> results[i][1].page_content,
      metadata |-> results[i][1].metadata,
      score |-> results[i][2]]]

(* query yields [st, exc, results, result, llm]: result is the returned    *)
(* dict (None when it raised), llm the games text generation was invoked   *)
(* for, results what similarity_search returned.                           *)
(* The result dict of query once text generation answered. *)
Answered(answer, g, results, return_resources) ==
  IF return_resources
    THEN [answer |-> answer, game_name |-> g, sources |-> Some(SourcesOf(results))]
    ELSE [answer |-> answer, game_name |-> g]

(* query from the return of similarity_search on. *)
Compose(s, g, q, return_resources, F) ==
  IF s.exc # ""
    THEN [st |-> s.st, exc |-> s.exc, results |-> <<>>, result |-> None, llm |-> <<>>]
  ELSE IF NoResults(s.results)
    THEN [st |-> s.st, exc |-> "", results |-> s.results, llm |-> <<>>,
          result |-> Some([answer |-> Canned(g),
                           sources |-> IF return_resources THEN Some(<<>>) ELSE None])]
  ELSE IF "llm" \in F
    THEN [st |-> s.st, exc |-> "BackendError", results |-> s.results,
          result |-> None, llm |-> <<g>>]
  ELSE [st |-> s.st, exc |-> "", results |-> s.results, llm |-> <<g>>,
        result |-> Some(Answered(Generated(g, _format_documents(DocsIn(s.results)), q),
                                 g, s.results, return_resources))]

query(st, g, q, k, return_resources, F) ==
  Compose(similarity_search(st, g, q, k, F), g, q, return_resources, F)

Infinity == 1000000

(* `result[0][1] if result else float('inf')` *)
RelevanceScoreLast(result) == IF result # <<>> THEN result[Len(result)][2] ELSE Infinity
RelevanceScore(result) == IF result # <<>> THEN result[1][2] ELSE Infinity

(* responses.sort(key=relevance_score): Python's sort is stable, ascending. *)
RECURSIVE InsertByScore(_, _)
InsertByScore(s, x) ==
  IF s = <<>> THEN <<x>>
  ELSE IF x.relevance_score < Head(s).relevance_score THEN <<x>> \o s
  ELSE <<Head(s)>> \o InsertByScore(Tail(s), x)

RECURSIVE SortedFrom(_, _)
SortedFrom(acc, s) ==
  IF s = <<>> THEN acc ELSE SortedFrom(InsertByScore(acc, Head(s)), Tail(s))

SortResponsesUnsorted(responses) == responses
SortResponses(responses) == SortedFrom(<<>>, responses)

(* The loop of query_all_games over all_results.items(). *)
RECURSIVE AnswerEach(_, _, _, _)
AnswerOne(e, rest, q, F, acc) ==
  IF "llm" \in F
    THEN [exc |-> "BackendError", responses |-> <<>>, llm |-> Append(acc.llm, e.game)]
    ELSE AnswerEach(rest, q, F,
           [exc |-> "",
            responses |-> Append(acc.responses,
               [game_name |-> e.game,
                answer |-> Generated(e.game, _format_documents(DocsIn(e.result)), q),
                relevance_score |-> RelevanceScore(e.result)]),
            llm |-> Append(acc.llm, e.game)])

AnswerEach(all, q, F, acc) ==
  IF all = <<>> THEN acc ELSE AnswerOne(Head(all), Tail(all), q, F, acc)

(* query_all_games calls search_all_games(query=question): its own k is    *)
(* not passed on, the search runs with search_all_games' default k.        *)
Ranking(s, a) ==
  [st |-> s.st, exc |-> a.exc, all |-> s.all, searched |-> s.searched,
   responses |-> IF a.exc = "" THEN SortResponses(a.responses) ELSE <<>>,
   llm |-> a.llm]

AnswerAll(s, q, F) ==
  IF s.exc # ""
    THEN [st |-> s.st, exc |-> s.exc, all |-> <<>>, searched |-> s.searched,
          responses |-> <<>>, llm |-> <<>>]
    ELSE Ranking(s, AnswerEach(s.all, q, F,
                      [exc |-> "", responses |-> <<>>, llm |-> <<>>]))

query_all_games(st, names, q, k, F) ==
  AnswerAll(search_all_games(st, names, q, DefaultSearchK, F), q, F)

----------------------------------------------------------------------------
(* HTTP surface (FastAPI).  A handler yields [st, status, body, ...].      *)

(* response_model=QueryResponse: the returned dict is validated against    *)
(* the fields answer (required), game_name (required), resources           *)
(* (optional, default None); keys that are no field are dropped; a missing *)
(* required field makes the framework answer 500.                          *)
QueryResponse(result) ==
  IF {"answer", "game_name"} \subseteq DOMAIN result
    THEN [status |-> 200,
          body |-> Some([answer |-> result.answer,
                         game_name |-> result.game_name,
                         resources |-> IF "resources" \in DOMAIN result
                                         THEN result.resources ELSE None])]
    ELSE [status |-> 500, body |-> Some([detail |-> <<"ResponseValidationError">>])]

Validated(r, v, g) ==
  [st |-> r.st, status |-> v.status, body |-> v.body, results |-> r.results,
   result |-> r.result, searched |-> <<g>>, llm |-> r.llm]

(* `return result` / `except Exception` of query_game *)
Respond(r, g) ==
  IF r.exc # ""
    THEN [st |-> r.st, status |-> 500, body |-> Some([detail |-> <<r.exc>>]),
          results |-> r.results, result |-> None, searched |-> <<g>>, llm |-> r.llm]
    ELSE Validated(r, QueryResponse(The(r.result)), g)

query_game(st, names, g, q, k, return_resources, F) ==
  IF ~_collection_exists(st, g)
    THEN [st |-> st, status |-> 404,
          body |-> Some([detail |-> list_collections(st, names, F).names]),
          results |-> <<>>, result |-> None, searched |-> <<>>, llm |-> <<>>]
    ELSE Respond(query(st, g, q, k, return_resources, F), g)

Health(games) ==
  IF games.exc # ""
    THEN [status |-> 500, body |-> Some([detail |-> <<"Service Unhealthy", games.exc>>])]
    ELSE [status |-> 200,
          body |-> Some([status |-> "healthy", available_games |-> Len(games.names)])]

health_check(st, names, F) == Health(list_collections(st, names, F))

----------------------------------------------------------------------------
(* State machine *)

Store == [cols |-> collections, docs |-> stored, cache |-> vectorstore]

Commit(st) ==
  /\ collections' = st.cols
  /\ stored' = st.docs
  /\ vectorstore' = st.cache

(* No operation in progress, nothing to hand back. *)
Idle ==
  [op |-> "idle", game |-> "", question |-> "", k |-> 0, force |-> FALSE,
   rr |-> FALSE, faults |-> {}, existed |-> FALSE,
   exc |-> "", handle |-> 0, results |-> <<>>, all |-> <<>>, searched |-> <<>>,
   llm |-> <<>>, result |-> None, responses |-> <<>>, status |-> 0, body |-> None]

(* No rulebook file is being ingested. *)
IngestIdle == [phase |-> "idle", path |-> <<>>, stem |-> <<>>, games |-> <<>>]

(* RAGAgent.chat has not been entered. *)
ChatOff ==
  [pc |-> "off", game |-> "", k |-> 0, show_sources |-> FALSE, lines |-> 0,
   toggles |-> 0, line |-> <<>>, asked |-> 0, searched |-> 0, generated |-> 0,
   rr |-> FALSE, shown |-> <<>>, exc |-> ""]

(* main has not been started. *)
NoArgs == [skip_processing |-> FALSE, force_recreate |-> FALSE, no_interactive |-> FALSE]

CliOff ==
  [pc |-> "off", args |-> NoArgs, env_ok |-> FALSE, store_ok |-> FALSE,
   files |-> <<>>, todo |-> <<>>, force |-> FALSE, interactive |-> FALSE,
   reads |-> 0, choice |-> <<>>, creates |-> <<>>, skipped |-> <<>>, errors |-> <<>>,
   cache |-> <<>>, called |-> FALSE, ran |-> FALSE, success |-> "",
   status |-> None, server |-> FALSE]

(* The server process has taken no request: no handler exists, no         *)
(* collection was opened, no handle was handed out.                        *)
MaxReqs == 2

NoRequest == [state |-> "none", op |-> "", stack |-> <<>>, exc |-> ""]

ServeOff ==
  [reqs |-> [i \in 1..MaxReqs |-> NoRequest], running |-> 0,
   opens |-> [g \in Games |-> 0], handed |-> [g \in Games |-> {}]]

AsideIdle ==
  /\ ingest = IngestIdle
  /\ chat = ChatOff
  /\ cli = CliOff
  /\ serve = ServeOff

(* What the vector store can hold of one game (guards the growth of a      *)
(* collection that failed deletes leave behind).                           *)
StoredCap == MaxDocs

Init ==
  /\ collections = {}
  /\ stored = [g \in Games |-> EmptyBag]
  /\ vectorstore = <<>>
  /\ rebuilt = [g \in Games |-> None]
  /\ last = Idle
  /\ AsideIdle

Created(r, existed, g, d, force, F) ==
  /\ BagSize(r.st.docs[g]) <= StoredCap
  /\ Commit(r.st)
  /\ rebuilt' = IF existed /\ ~force THEN rebuilt
                ELSE [rebuilt EXCEPT ![g] =
                        IF existed /\ force /\ r.exc = ""
                          THEN Some(Range(DocsOf(d))) ELSE None]
  /\ last' = [Idle EXCEPT !.op = "create_vectorstore", !.game = g,
                !.force = force, !.faults = F,
                !.existed = existed, !.exc = r.exc, !.handle = r.handle]

CreateVectorstore(g, d, force, F) ==
  /\ last.op = "idle"
  /\ Created(create_vectorstore(Store, g, DocsOf(d), force, F),
             g \in collections, g, d, force, F)
  /\ UNCHANGED aside

DeleteCollection(g, F) ==
  /\ last.op = "idle"
  /\ Commit(_delete_collection(Store, g, F))
  /\ rebuilt' = IF g \in collections' THEN rebuilt ELSE [rebuilt EXCEPT ![g] = None]
  /\ last' = [Idle EXCEPT !.op = "_delete_collection", !.game = g, !.faults = F,
                !.existed = (g \in collections)]
  /\ UNCHANGED aside

Loaded(r, g, F) ==
  /\ Commit(r.st)
  /\ last' = [Idle EXCEPT !.op = "load_vectorstore", !.game = g, !.faults = F,
                !.existed = (g \in collections),
                !.exc = r.exc, !.handle = r.handle]

LoadVectorstore(g, F) ==
  /\ last.op = "idle"
  /\ Loaded(load_vectorstore(Store, g, F), g, F)
  /\ UNCHANGED rebuilt
  /\ UNCHANGED aside

Searched(r, g, q, k, F) ==
  /\ Commit(r.st)
  /\ last' = [Idle EXCEPT !.op = "similarity_search", !.game = g, !.question = q,
                !.k = k, !.faults = F, !.existed = (g \in collections),
                !.exc = r.exc, !.results = r.results, !.searched = <<g>>]

SimilaritySearch(g, q, k, F) ==
  /\ last.op = "idle"
  /\ Searched(similarity_search(Store, g, q, k, F), g, q, k, F)
  /\ UNCHANGED rebuilt
  /\ UNCHANGED aside

SearchedAll(r, q, k, F) ==
  /\ Commit(r.st)
  /\ last' = [Idle EXCEPT !.op = "search_all_games", !.question = q, !.k = k,
                !.faults = F, !.exc = r.exc, !.all = r.all, !.searched = r.searched]

SearchAllGames(names, q, k, F) ==
  /\ last.op = "idle"
  /\ SearchedAll(search_all_games(Store, names, q, k, F), q, k, F)
  /\ UNCHANGED rebuilt
  /\ UNCHANGED aside

Queried(r, g, q, k, rr, F) ==
  /\ Commit(r.st)
  /\ last' = [Idle EXCEPT !.op = "query", !.game = g, !.question = q, !.k = k,
                !.rr = rr, !.faults = F, !.existed = (g \in collections),
                !.exc = r.exc, !.results = r.results, !.result = r.result,
                !.searched = <<g>>, !.llm = r.llm]

Query(g, q, k, rr, F) ==
  /\ last.op = "idle"
  /\ Queried(query(Store, g, q, k, rr, F), g, q, k, rr, F)
  /\ UNCHANGED rebuilt
  /\ UNCHANGED aside

QueriedAll(r, q, k, F) ==
  /\ Commit(r.st)
  /\ last' = [Idle EXCEPT !.op = "query_all_games", !.question = q, !.k = k,
                !.faults = F, !.exc = r.exc, !.all = r.all, !.searched = r.searched,
                !.responses = r.responses, !.llm = r.llm]

QueryAllGames(names, q, k, F) ==
  /\ last.op = "idle"
  /\ QueriedAll(query_all_games(Store, names, q, k, F), q, k, F)
  /\ UNCHANGED rebuilt
  /\ UNCHANGED aside

Responded(r, g, q, k, rr, F) ==
  /\ Commit(r.st)
  /\ last' = [Idle EXCEPT !.op = "query_game", !.game = g, !.question = q,
                !.k = k, !.rr = rr, !.faults = F,
                !.existed = (g \in collections),
                !.results = r.results, !.result = r.result,
                !.searched = r.searched, !.llm = r.llm,
                !.status = r.status, !.body = r.body]

(* POST /games/{game_name}/query *)
QueryGame(names, g, q, k, rr, F) ==
  /\ last.op = "idle"
  /\ Responded(query_game(Store, names, g, q, k, rr, F), g, q, k, rr, F)
  /\ UNCHANGED rebuilt
  /\ UNCHANGED aside

Answer(r, F) ==
  last' = [Idle EXCEPT !.op = "health_check", !.faults = F,
             !.status = r.status, !.body = r.body]

(* GET /health *)
HealthCheck(names, F) ==
  /\ last.op = "idle"
  /\ Answer(health_check(Store, names, F), F)
  /\ UNCHANGED <<collections, stored, vectorstore, rebuilt>>
  /\ UNCHANGED aside

(* The outcome is handed to the caller. *)
Return ==
  /\ last.op # "idle"
  /\ last' = Idle
  /\ UNCHANGED <<collections, stored, vectorstore, rebuilt>>
  /\ UNCHANGED aside

(* The collection store's operations and the health probe. *)
StoreStep(on) ==
  \/ \E g \in Games, d \in DocLists, force \in BOOLEAN,
        F \in Faults({"delete_collection", "embed"}, on) :
       CreateVectorstore(g, d, force, F)
  \/ \E g \in Games, F \in Faults({"delete_collection"}, on) : DeleteCollection(g, F)
  \/ \E g \in Games : LoadVectorstore(g, {})
  \/ \E g \in Games, q \in Questions, k \in 1..MaxK, F \in Faults({"embed"}, on) :
       SimilaritySearch(g, q, k, F)
  \/ \E names \in Perms(collections), q \in Questions, k \in 1..MaxK,
        F \in Faults({"list_collections", "embed"}, on) :
       SearchAllGames(names, q, k, F)
  \/ \E names \in Perms(collections), F \in Faults({"list_collections"}, on) :
       HealthCheck(names, F)
  \/ Return

(* The answer composer and the query endpoint. *)
AnswerStep ==
  \/ \E g \in Games, q \in Questions, k \in 1..MaxK, rr \in BOOLEAN :
       Query(g, q, k, rr, {})
  \/ \E names \in Perms(collections), q \in Questions, k \in 1..MaxK :
       QueryAllGames(names, q, k, {})
  \/ \E names \in Perms(collections), g \in Games, q \in Questions, k \in 1..MaxK,
        rr \in BOOLEAN :
       QueryGame(names, g, q, k, rr, {})

(* Every collaborator call succeeds. *)
Next == StoreStep(FALSE) \/ AnswerStep
Spec == Init /\ [][Next]_vars

(* A call of the vector-store or embedding collaborator may raise during   *)
(* an operation of the collection store.                                   *)
NextFault == StoreStep(TRUE)
SpecFault == Init /\ [][NextFault]_vars

(* A manager constructed over a persist directory that already holds      *)
(* collections (built by an earlier process): nothing is cached yet.       *)
PersistedBags == {BagOf(DocsOf(d)) : d \in DocLists}

InitStart ==
  /\ collections \in SUBSET Games
  /\ stored \in [Games -> PersistedBags]
  /\ \A g \in Games : g \notin collections => stored[g] = EmptyBag
  /\ vectorstore = <<>>
  /\ rebuilt = [g \in Games |-> None]
  /\ last = Idle
  /\ AsideIdle

NextStart == StoreStep(FALSE)
SpecStart == InitStart /\ [][NextStart]_vars

----------------------------------------------------------------------------
(* Document ingestion (src/src/document_processor.py) and the name under   *)
(* which process_games stores a rulebook (src/main.py).  File names are    *)
(* sequences of characters.                                                *)

core == <<collections, stored, vectorstore, rebuilt, last>>

MaxName == 3
MaxChunks == 2

NameChars == {"a", "t", "x", "."}
Ext == <<".", "t", "x", "t">>
Dirs == {<<>>, <<"r", "/">>}

(* The rulebook paths DATA_DIR.glob("*.txt") yields: <dir>/<name>.txt *)
RulebookNames == UNION {[1..n -> NameChars] : n \in 1..MaxName}
RulebookPaths == {d \o n \o Ext : d \in Dirs, n \in RulebookNames}

(* os.path.basename: what follows the last "/" *)
RECURSIVE Basename(_)
Basename(path) ==
  IF \E i \in 1..Len(path) : path[i] = "/" THEN Basename(Tail(path)) ELSE path

(* str.strip(chars): drop leading and trailing characters that are in chars *)
RECURSIVE LStrip(_, _)
LStrip(s, chars) ==
  IF s # <<>> /\ Head(s) \in chars THEN LStrip(Tail(s), chars) ELSE s

RECURSIVE RStrip(_, _)
RStrip(s, chars) ==
  IF s # <<>> /\ s[Len(s)] \in chars THEN RStrip(SubSeq(s, 1, Len(s) - 1), chars) ELSE s

Strip(s, chars) == RStrip(LStrip(s, chars), chars)

(* Path.stem: the final component without its last suffix *)
LastDot(name) ==
  IF \E i \in 1..Len(name) : name[i] = "."
    THEN CHOOSE i \in 1..Len(name) :
           name[i] = "." /\ \A j \in (i + 1)..Len(name) : name[j] # "."
    ELSE 0

Stem(path) ==
  IF 1 < LastDot(Basename(path)) /\ LastDot(Basename(path)) < Len(Basename(path))
    THEN SubSeq(Basename(path), 1, LastDot(Basename(path)) - 1)
    ELSE Basename(path)

(* TextLoader(path).load() yields one document; load_documents stamps it   *)
(* with metadata['game'] = os.path.basename(path).strip(".txt").           *)
load_documents(path) ==
  <<[page_content |-> "text",
     metadata |-> [source |-> path, game |-> Strip(Basename(path), Range(Ext))]]>>

(* The splitter cuts a document into n chunks that copy its metadata. *)
split_documents(documents, n) ==
  [i \in 1..(Len(documents) * n) |->
     [page_content |-> "chunk", metadata |-> documents[((i - 1) \div n) + 1].metadata]]

process_documents(path, n) == split_documents(load_documents(path), n)

Ingested(path, chunks) ==
  ingest' = [phase |-> "processed", path |-> path, stem |-> Stem(path),
             games |-> [i \in 1..Len(chunks) |-> chunks[i].metadata.game]]

(* process_games, one rulebook file: process_documents(str(game_file)) and *)
(* create_vectorstore(game_file.stem, ...).                                *)
IngestFile(path, n) ==
  /\ ingest.phase = "idle"
  /\ Ingested(path, process_documents(path, n))
  /\ UNCHANGED <<core, chat, cli, serve>>

IngestDone ==
  /\ ingest.phase = "processed"
  /\ ingest' = IngestIdle
  /\ UNCHANGED <<core, chat, cli, serve>>

NextIngest ==
  \/ \E path \in RulebookPaths, n \in 1..MaxChunks : IngestFile(path, n)
  \/ IngestDone

SpecIngest == Init /\ [][NextIngest]_vars

----------------------------------------------------------------------------
(* The interactive loop RAGAgent.chat.  Input lines are sequences of       *)
(* characters.                                                             *)

MaxLines == 3

Whitespace == {" "}
QuitWord == <<"q", "u", "i", "t">>
SourcesWord == <<"s", "o", "u", "r", "c", "e", "s">>

(* What the user may type at the prompt. *)
ChatLines ==
  {QuitWord, <<" ", "Q", "u", "i", "t">>,
   SourcesWord, <<"S", "o", "u", "r", "c", "e", "s", " ">>,
   <<>>, <<" ">>,
   <<"w", "i", "n">>, <<" ", "j", "a", "i", "l">>}

(* str.lower *)
Lower(c) ==
  CASE c = "Q" -> "q"
    [] c = "S" -> "s"
    [] OTHER -> c

LowerAll(s) == [i \in 1..Len(s) |-> Lower(s[i])]

(* `show_sources = not show_sources` *)
ToggledOn(show_sources) == TRUE
Toggled(show_sources) == ~show_sources

(* `if show_sources and result.get('sources')`: the source previews        *)
(* printed after the answer (score and content of each source).            *)
Previews(show_sources, result) ==
  IF show_sources /\ "sources" \in DOMAIN result /\ result.sources # None
       /\ The(result.sources) # <<>>
    THEN [i \in 1..Len(The(result.sources)) |->
            [score |-> The(result.sources)[i].score,
             content |-> The(result.sources)[i].content]]
    ELSE <<>>

(* chat, from `if not self.vector_manager._collection_exists(...)` to the  *)
(* first prompt.                                                           *)
ChatBegin(g, k) ==
  /\ chat.pc = "off"
  /\ chat' = [ChatOff EXCEPT !.pc = IF _collection_exists(Store, g) THEN "prompt" ELSE "done",
                             !.game = g, !.k = k]
  /\ UNCHANGED <<core, ingest, cli, serve>>

(* `result = self.query(...)` and the printing of answer and sources *)
ChatAnswered(r, line) ==
  /\ Commit(r.st)
  /\ chat' = [chat EXCEPT !.lines = @ + 1, !.line = line,
                          !.asked = @ + 1, !.searched = @ + 1,
                          !.generated = @ + Len(r.llm),
                          !.rr = chat.show_sources,
                          !.exc = r.exc,
                          !.pc = IF r.exc = "" THEN "prompt" ELSE "done",
                          !.shown = IF r.exc = ""
                                      THEN Previews(chat.show_sources, The(r.result))
                                      ELSE <<>>]

(* One turn of `while True`: a line is read, stripped and dispatched. *)
ChatLine(line) ==
  /\ chat.pc = "prompt"
  /\ chat.lines < MaxLines
  /\ IF LowerAll(Strip(line, Whitespace)) = QuitWord
       THEN /\ chat' = [chat EXCEPT !.lines = @ + 1, !.line = line, !.pc = "done"]
            /\ UNCHANGED <<collections, stored, vectorstore>>
     ELSE IF LowerAll(Strip(line, Whitespace)) = SourcesWord
       THEN /\ chat' = [chat EXCEPT !.lines = @ + 1, !.line = line,
                                    !.show_sources = Toggled(@), !.toggles = @ + 1]
            /\ UNCHANGED <<collections, stored, vectorstore>>
     ELSE IF Strip(line, Whitespace) = <<>>
       THEN /\ chat' = [chat EXCEPT !.lines = @ + 1, !.line = line]
            /\ UNCHANGED <<collections, stored, vectorstore>>
     ELSE /\ ChatAnswered(query(Store, chat.game, Strip(line, Whitespace), chat.k,
                                chat.show_sources, {}), line)
  /\ UNCHANGED <<rebuilt, last, ingest, cli, serve>>

(* input() raises at end of input: the exception leaves chat. *)
ChatEof ==
  /\ chat.pc = "prompt"
  /\ chat' = [chat EXCEPT !.pc = "done", !.exc = "EOFError"]
  /\ UNCHANGED <<core, ingest, cli, serve>>

(* chat has returned; it may be entered again. *)
ChatEnd ==
  /\ chat.pc = "done"
  /\ chat' = ChatOff
  /\ UNCHANGED <<core, ingest, cli, serve>>

NextChat ==
  \/ \E g \in Games, k \in 1..MaxK : ChatBegin(g, k)
  \/ \E line \in ChatLines : ChatLine(line)
  \/ ChatEof
  \/ ChatEnd

SpecChat == InitStart /\ [][NextChat]_vars

----------------------------------------------------------------------------
(* The command line (src/main.py): main, check_environment,                *)
(* check_vector_store, process_games, start_api_server.  process_games     *)
(* works on a VectorStoreManager of its own (cli.cache) over the shared    *)
(* persist directory.  The value process_games returns is kept as          *)
(* "True", "False" or "None".                                              *)

Args == [skip_processing : BOOLEAN, force_recreate : BOOLEAN, no_interactive : BOOLEAN]

(* What the user may type at `Enter choice (1/2/3) [1]: ` *)
ChoiceLines == {<<>>, <<"1">>, <<" ", "2">>, <<"3">>, <<"9">>}

(* The rulebook files of DATA_DIR, in the order glob yields them. *)
FileLists == UNION {Perms(S) : S \in SUBSET Games}

(* check_environment: all_good needs *.txt files in DATA_DIR besides the   *)
(* interpreter, API key and packages (other_ok).                           *)
check_environment(other_ok, files) == other_ok /\ files # <<>>

(* check_vector_store: True iff list_collections() is not empty *)
check_vector_store(cols) == cols # {}

(* `input(...).strip() or "1"` *)
Choice(raw) == IF Strip(raw, Whitespace) = <<>> THEN <<"1">> ELSE Strip(raw, Whitespace)

(* `if not success:` of main: None is falsy *)
Truthy(success) == success = "True"

(* main after process_games returned `success` *)
Returned(c, success) ==
  [c EXCEPT !.success = success,
            !.pc = IF Truthy(success) THEN "server" ELSE "exit",
            !.status = IF Truthy(success) THEN None ELSE Some(1)]

(* main up to and including check_environment *)
MainStart(args, other_ok, files) ==
  /\ cli.pc = "off"
  /\ cli' = [CliOff EXCEPT
               !.args = args, !.files = files,
               !.env_ok = check_environment(other_ok, files),
               !.pc = IF check_environment(other_ok, files) THEN "store" ELSE "exit",
               !.status = IF check_environment(other_ok, files) THEN None ELSE Some(1)]
  /\ UNCHANGED <<core, ingest, chat, serve>>

(* main, step 2: whether process_games is called *)
MainCheckStore ==
  /\ cli.pc = "store"
  /\ cli' = [cli EXCEPT
               !.store_ok = check_vector_store(collections),
               !.pc = IF ~cli.args.skip_processing
                        THEN (IF ~check_vector_store(collections) \/ cli.args.force_recreate
                                THEN "process" ELSE "server")
                        ELSE (IF ~check_vector_store(collections) THEN "exit" ELSE "server"),
               !.status = IF cli.args.skip_processing /\ ~check_vector_store(collections)
                            THEN Some(1) ELSE None,
               !.force = cli.args.force_recreate,
               !.interactive = ~cli.args.no_interactive]
  /\ UNCHANGED <<core, ingest, chat, serve>>

(* process_games from its start to the loop over the files: the choice is  *)
(* read with input() whatever interactive and force_recreate are.          *)
Chosen(c, choice) ==
  IF choice = <<"1">> THEN Returned(c, "True")
  ELSE IF choice \notin {<<"2">>, <<"3">>} THEN Returned(c, "True")
  ELSE IF c.files = <<>> THEN Returned(c, "False")
  ELSE [c EXCEPT !.force = (choice = <<"3">>), !.todo = c.files, !.pc = "files"]

ProcessPrompt(raw) ==
  /\ cli.pc = "process"
  /\ cli' = Chosen([cli EXCEPT !.called = TRUE, !.reads = @ + 1, !.choice = Choice(raw)],
                   Choice(raw))
  /\ UNCHANGED <<core, ingest, chat, serve>>

(* input() raises at end of input: `except Exception` returns False *)
ProcessEof ==
  /\ cli.pc = "process"
  /\ cli' = Returned([cli EXCEPT !.called = TRUE, !.reads = @ + 1], "False")
  /\ UNCHANGED <<core, ingest, chat, serve>>

(* One rulebook file of the loop; `unreadable`: process_documents raises. *)
FileCreated(r, g) ==
  /\ collections' = r.st.cols
  /\ stored' = r.st.docs
  /\ cli' = [cli EXCEPT !.todo = Tail(@), !.cache = r.st.cache,
                        !.creates = Append(@, [game |-> g, force |-> cli.force]),
                        !.errors = IF r.exc = "" THEN @ ELSE Append(@, g)]

ProcessFile(d, unreadable) ==
  /\ cli.pc = "files"
  /\ cli.todo # <<>>
  /\ IF ~cli.force /\ _collection_exists([cols |-> collections, docs |-> stored,
                                          cache |-> cli.cache], Head(cli.todo))
       THEN /\ cli' = [cli EXCEPT !.todo = Tail(@), !.skipped = Append(@, Head(cli.todo))]
            /\ UNCHANGED <<collections, stored>>
     ELSE IF unreadable
       THEN /\ cli' = [cli EXCEPT !.todo = Tail(@), !.errors = Append(@, Head(cli.todo))]
            /\ UNCHANGED <<collections, stored>>
     ELSE FileCreated(create_vectorstore([cols |-> collections, docs |-> stored,
                                          cache |-> cli.cache],
                                         Head(cli.todo), DocsOf(d), cli.force, {}),
                      Head(cli.todo))
  /\ UNCHANGED <<vectorstore, rebuilt, last, ingest, chat, serve>>

(* The loop is over: process_games ends without a return statement. *)
ProcessEnd ==
  /\ cli.pc = "files"
  /\ cli.todo = <<>>
  /\ cli' = Returned([cli EXCEPT !.ran = TRUE], "None")
  /\ UNCHANGED <<core, ingest, chat, serve>>

(* main, step 3 *)
StartServer ==
  /\ cli.pc = "server"
  /\ cli' = [cli EXCEPT !.pc = "serving", !.server = TRUE]
  /\ UNCHANGED <<core, ingest, chat, serve>>

NextMain ==
  \/ \E args \in Args, other_ok \in BOOLEAN, files \in FileLists :
       MainStart(args, other_ok, files)
  \/ MainCheckStore
  \/ \E raw \in ChoiceLines : ProcessPrompt(raw)
  \/ ProcessEof
  \/ \E d \in DocLists, unreadable \in BOOLEAN : ProcessFile(d, unreadable)
  \/ ProcessEnd
  \/ StartServer

SpecMain == InitStart /\ [][NextMain]_vars

----------------------------------------------------------------------------
(* The server process (src/src/api.py): requests in flight against the one *)
(* module-level VectorStoreManager.  A request runs a handler; a handler   *)
(* is a stack of frames of the manager's methods, executed one statement   *)
(* at a time (top frame first in the sequence).  A step of a frame yields  *)
(* [frames, cache, exc, got, opened]: the frames that replace it, the      *)
(* cache it leaves, the exception it raises, the handles it obtained, the  *)
(* collections it opened.                                                  *)

Frame(fn, pc, g) == [fn |-> fn, pc |-> pc, game |-> g, names |-> <<>>, h |-> 0]

Goto(f, pc, cache) ==
  [frames |-> <<[f EXCEPT !.pc = pc]>>, cache |-> cache, exc |-> "", got |-> {}, opened |-> {}]

Raise(exc, cache) ==
  [frames |-> <<>>, cache |-> cache, exc |-> exc, got |-> {}, opened |-> {}]

Call(callee, f, cache) ==
  [frames |-> <<callee, f>>, cache |-> cache, exc |-> "", got |-> {}, opened |-> {}]

(* An identity for a newly constructed handle: none handed out before. *)
FreshHandle(opens) == 1 + SumOver(opens, CHOOSE s \in Perms(Games) : TRUE)

(* load_vectorstore, statement by statement *)
load_step(f, st, opens) ==
  IF f.pc = "exists"
    THEN (IF ~_collection_exists(st, f.game)
            THEN Raise("ValueError", st.cache) ELSE Goto(f, "cached", st.cache))
  ELSE IF f.pc = "cached"
    THEN (IF Has(st.cache, f.game)
            THEN [frames |-> <<>>, cache |-> st.cache, exc |-> "",
                  got |-> {[game |-> f.game, handle |-> Get(st.cache, f.game)]},
                  opened |-> {}]
            ELSE Goto(f, "open", st.cache))
  ELSE IF f.pc = "open"
    THEN [frames |-> <<[f EXCEPT !.pc = "assign", !.h = FreshHandle(opens)]>>,
          cache |-> st.cache, exc |-> "", got |-> {}, opened |-> {f.game}]
  ELSE [frames |-> <<>>, cache |-> Put(st.cache, f.game, f.h), exc |-> "",
        got |-> {[game |-> f.game, handle |-> f.h]}, opened |-> {}]

(* similarity_search, statement by statement *)
search_step(f, st) ==
  IF f.pc = "check"
    THEN (IF ~Has(st.cache, f.game) /\ _collection_exists(st, f.game)
            THEN Call(Frame("load", "exists", f.game), [f EXCEPT !.pc = "call"], st.cache)
            ELSE Goto(f, "call", st.cache))
  ELSE IF ~Has(st.cache, f.game)
    THEN Raise("KeyError", st.cache)
  ELSE [frames |-> <<>>, cache |-> st.cache, exc |-> "",
        got |-> {[game |-> f.game, handle |-> Get(st.cache, f.game)]}, opened |-> {}]

(* search_all_games with load_all_vectorstores, statement by statement;    *)
(* `listed` is what list_collections returns.                              *)
all_step(f, st, listed) ==
  IF f.pc = "list"
    THEN Goto([f EXCEPT !.names = listed], "loading", st.cache)
  ELSE IF f.pc = "loading"
    THEN (IF f.names = <<>> THEN Goto(f, "keys", st.cache)
          ELSE IF Has(st.cache, Head(f.names))
            THEN Goto([f EXCEPT !.names = Tail(@)], "loading", st.cache)
          ELSE Call(Frame("load", "exists", Head(f.names)),
                    [f EXCEPT !.names = Tail(@)], st.cache))
  ELSE IF f.pc = "keys"
    THEN Goto([f EXCEPT !.names = Keys(st.cache)], "searching", st.cache)
  ELSE IF f.names = <<>>
    THEN [frames |-> <<>>, cache |-> st.cache, exc |-> "", got |-> {}, opened |-> {}]
  ELSE Call(Frame("search", "check", Head(f.names)), [f EXCEPT !.names = Tail(@)], st.cache)

frame_step(f, st, opens, listed) ==
  IF f.fn = "load" THEN load_step(f, st, opens)
  ELSE IF f.fn = "search" THEN search_step(f, st)
  ELSE all_step(f, st, listed)

FirstPc(op) ==
  IF op = "load" THEN "exists" ELSE IF op = "search" THEN "check" ELSE "list"

(* The handlers are `async def` and never await: the event loop runs a     *)
(* handler it has started to its end before it starts or resumes another.  *)
MayRunAny(i) == TRUE
MayRun(i) == serve.running \in {0, i}

(* A request arrives; its handler is scheduled. *)
Arrive(i, op, g) ==
  /\ serve.reqs[i].state = "none"
  /\ serve' = [serve EXCEPT !.reqs[i] =
                 [state |-> "pending", op |-> op, exc |-> "",
                  stack |-> <<Frame(op, FirstPc(op), g)>>]]
  /\ UNCHANGED <<core, ingest, chat, cli>>

(* The effect of one statement of request i's handler. *)
Stepped(i, o) ==
  /\ vectorstore' = o.cache
  /\ serve' = [serve EXCEPT
       !.reqs[i] = IF o.exc # "" \/ o.frames \o Tail(serve.reqs[i].stack) = <<>>
                     THEN [@ EXCEPT !.state = "done", !.stack = <<>>, !.exc = o.exc]
                     ELSE [@ EXCEPT !.state = "active",
                                    !.stack = o.frames \o Tail(serve.reqs[i].stack)],
       !.running = IF o.exc # "" \/ o.frames \o Tail(serve.reqs[i].stack) = <<>>
                     THEN 0 ELSE i,
       !.opens = [g \in Games |-> IF g \in o.opened THEN @[g] + 1 ELSE @[g]],
       !.handed = [g \in Games |->
                     @[g] \cup {e.handle : e \in {x \in o.got : x.game = g}}]]

Run(i, listed) ==
  /\ serve.reqs[i].state \in {"pending", "active"}
  /\ MayRun(i)
  /\ Stepped(i, frame_step(Head(serve.reqs[i].stack), Store, serve.opens, listed))
  /\ UNCHANGED <<collections, stored, rebuilt, last, ingest, chat, cli>>

(* The response is sent; the slot takes the next request. *)
Reply(i) ==
  /\ serve.reqs[i].state = "done"
  /\ serve' = [serve EXCEPT !.reqs[i] = NoRequest]
  /\ UNCHANGED <<core, ingest, chat, cli>>

NextServe ==
  \/ \E i \in 1..MaxReqs, op \in {"load", "search"}, g \in Games : Arrive(i, op, g)
  \/ \E i \in 1..MaxReqs : Arrive(i, "search_all", "")
  \/ \E i \in 1..MaxReqs, listed \in Perms(collections) : Run(i, listed)
  \/ \E i \in 1..MaxReqs : Reply(i)

(* The server starts over a persist directory holding any of the          *)
(* collections (one chunk each: handlers here obtain handles, the content  *)
(* of a collection plays no part), with nothing cached.                    *)
InitServe ==
  /\ collections \in SUBSET Games
  /\ stored = [g \in Games |-> IF g \in collections THEN BagOf(<<D1>>) ELSE EmptyBag]
  /\ vectorstore = <<>>
  /\ rebuilt = [g \in Games |-> None]
  /\ last = Idle
  /\ AsideIdle

SpecServe == InitServe /\ [][NextServe]_vars

----------------------------------------------------------------------------
(* Properties *)

Composed == last.op \in {"query", "query_game"} /\ last.result # None
Answer1 == The(last.result)

(* C1: a query whose search returns no chunks returns the canned answer    *)
(* "No relevant documents found for {game}" with zero sources and calls    *)
(* text generation zero times; text generation is invoked only after a     *)
(* non-empty search result.                                                *)
C1_EmptyShortCircuit ==
  /\ (Composed /\ last.results = <<>>) =>
        /\ Answer1.answer = Canned(last.game)
        /\ "sources" \in DOMAIN Answer1
        /\ Answer1.sources = (IF last.rr THEN Some(<<>>) ELSE None)
        /\ last.llm = <<>>
  /\ (last.op \in {"query", "query_game"} /\ last.llm # <<>>) => last.results # <<>>

C1_Witness ==
  /\ last.op = "query" /\ last.exc = "" /\ last.game \in collections
  /\ last.results = <<>> /\ last.rr

(* C2: an empty search result on an existing game is no error: the query   *)
(* result carries the canned answer and the requested game name, and       *)
(* POST /games/{game_name}/query answers 200 with {answer, game_name}.     *)
C2_EmptyResultSucceeds ==
  (last.op = "query_game" /\ last.game \in collections /\ last.searched # <<>>
     /\ last.results = <<>>) =>
        /\ last.result # None
        /\ Answer1.answer = Canned(last.game)
        /\ "game_name" \in DOMAIN Answer1
        /\ Answer1.game_name = last.game
        /\ last.status = 200
        /\ The(last.body).answer = Canned(last.game)
        /\ The(last.body).game_name = last.game

(* C3: for an existing game with a non-empty search result the response of *)
(* POST /games/{game_name}/query carries, with return_resources=true, a    *)
(* resources list that is exactly the retrieved chunks (at most k), in     *)
(* retrieval order, each with content, metadata and score; with            *)
(* return_resources=false it carries no resources.                         *)
C3_ResourcesAttached ==
  (last.op = "query_game" /\ last.game \in collections /\ last.results # <<>>) =>
        /\ last.status = 200
        /\ Len(last.results) <= last.k
        /\ The(last.body).resources =
             (IF last.rr THEN Some(SourcesOf(last.results)) ELSE None)

(* C4: create(game, chunks, forceRebuild=false) on a game whose collection *)
(* already exists never raises, leaves the persisted collections and their *)
(* documents unchanged and returns the loaded existing handle.             *)
C4_IdempotentCreate ==
  [][(/\ last'.op = "create_vectorstore"
      /\ ~last'.force
      /\ last'.game \in collections) =>
        /\ last'.exc = ""
        /\ collections' = collections
        /\ stored' = stored
        /\ Has(vectorstore', last'.game)
        /\ last'.handle = Get(vectorstore', last'.game)
        /\ Has(vectorstore, last'.game) => vectorstore' = vectorstore]_vars

C4_Witness ==
  /\ last.op = "create_vectorstore" /\ ~last.force /\ last.existed
  /\ last.exc = "" /\ BagSize(stored[last.game]) = MaxDocs

C6_AscendingRelevance ==
  (last.op = "query_all_games" /\ last.exc = "") =>
     \A i \in 1..Len(last.responses) : \A j \in 1..Len(last.responses) :
        last.responses[i].relevance_score < last.responses[j].relevance_score => i < j

C6_Witness ==
  /\ last.op = "query_all_games" /\ last.exc = "" /\ Len(last.responses) = 2
  /\ last.responses[1].relevance_score < last.responses[2].relevance_score
  /\ last.all[1].game = last.responses[2].game_name

(* C7: the relevance_score of each game in query_all_games' output is the  *)
(* lowest score among the chunks retrieved for that game.                  *)
C7_BestScore ==
  (last.op = "query_all_games" /\ last.exc = "") =>
     \A i \in 1..Len(last.responses) : \A e \in 1..Len(last.all) :
        last.all[e].game = last.responses[i].game_name =>
           /\ \A j \in 1..Len(last.all[e].result) :
                 last.responses[i].relevance_score <= last.all[e].result[j][2]
           /\ \E j \in 1..Len(last.all[e].result) :
                 last.responses[i].relevance_score = last.all[e].result[j][2]

C7_Witness ==
  /\ last.op = "query_all_games" /\ last.exc = ""
  /\ \E e \in 1..Len(last.all) :
        /\ Len(last.all[e].result) >= 2
        /\ last.all[e].result[1][2] # last.all[e].result[Len(last.all[e].result)][2]

Occurrences(s, x) == Cardinality({i \in 1..Len(s) : s[i] = x})
ResponseGames == [i \in 1..Len(last.responses) |-> last.responses[i].game_name]
MappedGames == [i \in 1..Len(last.all) |-> last.all[i].game]

(* C8: a game whose collection exists but yields an empty result is no key *)
(* of search_all_games' mapping and no entry of query_all_games' output,   *)
(* and no text generation is issued for it; text generation is invoked     *)
(* exactly once for each game that appears.                                *)
C8_EmptyGamesDropped ==
  (last.op \in {"search_all_games", "query_all_games"} /\ last.exc = "") =>
     /\ \A g \in collections : BagSize(stored[g]) = 0 =>
           /\ g \notin Range(MappedGames)
           /\ g \notin Range(ResponseGames)
           /\ g \notin Range(last.llm)
     /\ last.op = "query_all_games" =>
           \A g \in Games :
              /\ Occurrences(ResponseGames, g) <= 1
              /\ Occurrences(last.llm, g) = Occurrences(ResponseGames, g)

C8_Witness ==
  /\ last.op = "query_all_games" /\ last.exc = ""
  /\ Len(last.searched) = 2 /\ Len(last.responses) = 1
  /\ \E g \in collections : BagSize(stored[g]) = 0

(* C9: a query request for a game that has no persisted collection returns *)
(* 404 with an error body listing the currently available games, and       *)
(* neither the similarity search nor text generation is invoked.           *)
C9_UnknownGame404 ==
  (last.op = "query_game" /\ last.game \notin collections) =>
     /\ last.status = 404
     /\ Range(The(last.body).detail) = collections
     /\ Len(The(last.body).detail) = Cardinality(collections)
     /\ last.searched = <<>>
     /\ last.llm = <<>>

C9_Witness ==
  /\ last.op = "query_game" /\ last.game \notin collections
  /\ collections # {} /\ last.status = 404

(* C10: GET /health returns 500 whenever the vector-store backend fails    *)
(* while enumerating collections; it answers {status: healthy,             *)
(* available_games: n} only when enumeration succeeded, with n the number  *)
(* of persisted collections.                                               *)
C10_HealthReportsFailure ==
  last.op = "health_check" =>
     /\ "list_collections" \in last.faults => last.status = 500
     /\ last.status = 200 =>
           /\ "list_collections" \notin last.faults
           /\ The(last.body).available_games = Cardinality(collections)

(* C11: load(game) raises the not-found error exactly when no persisted    *)
(* collection named game exists, and then leaves cache and collections     *)
(* unchanged; when the collection exists it returns the handle already     *)
(* cached for game, and otherwise opens the collection and caches that     *)
(* handle.                                                                 *)
C11_LoadContract ==
  [][(last'.op = "load_vectorstore") =>
        /\ (last'.exc = "ValueError") <=> (last'.game \notin collections)
        /\ last'.exc \in {"", "ValueError"}
        /\ collections' = collections
        /\ stored' = stored
        /\ (last'.exc # "") => (vectorstore' = vectorstore)
        /\ (last'.game \in collections /\ Has(vectorstore, last'.game)) =>
              /\ vectorstore' = vectorstore
              /\ last'.handle = Get(vectorstore, last'.game)
        /\ (last'.game \in collections /\ ~Has(vectorstore, last'.game)) =>
              /\ Has(vectorstore', last'.game)
              /\ Get(vectorstore', last'.game) = last'.handle
              /\ Del(vectorstore', last'.game) = vectorstore]_vars

C11_Witness ==
  /\ last.op = "load_vectorstore" /\ last.exc = "" /\ Len(vectorstore) = 1
  /\ Cardinality(collections) = 2
  /\ vectorstore[1].game = last.game /\ vectorstore[1].handle = last.handle

(* C12: delete(game) never raises; after it returns the handle cache holds *)
(* no entry for game, and when the backend removal succeeded no persisted  *)
(* collection named game exists.                                           *)
C12_DeleteEvicts ==
  (last.op = "_delete_collection") =>
     /\ last.exc = ""
     /\ ~Has(vectorstore, last.game)
     /\ ("delete_collection" \notin last.faults) => (last.game \notin collections)

(* C16: query_all_games(question, k) builds each game's context from the   *)
(* result of similarity_search(game, question, k) with the caller's k: at  *)
(* most k chunks per game.                                                 *)
C16_HonoursK ==
  (last.op = "query_all_games" /\ last.exc = "") =>
     \A e \in 1..Len(last.all) :
        /\ Len(last.all[e].result) <= last.k
        /\ last.all[e].result =
             SimilaritySearchWithScore(stored[last.all[e].game], last.question, last.k)

(* C20: whatever create, load, load-all, delete, search and search-all     *)
(* operations ran, backend failures included, every game with a cached     *)
(* handle has a persisted collection of the same name, and search_all_games*)
(* queries only games that have a persisted collection.                    *)
C20_CachedIsPersisted ==
  /\ \A i \in 1..Len(vectorstore) : vectorstore[i].game \in collections
  /\ (last.op = "search_all_games") => (Range(last.searched) \subseteq collections)

C20_Witness ==
  /\ last.op = "_delete_collection" /\ last.faults = {"delete_collection"}
  /\ Has(vectorstore, last.game) /\ Len(vectorstore) = 2

(* C18: for a rulebook <name>.txt every document ingestion produces        *)
(* carries metadata game = <name> exactly, the file stem under which the   *)
(* collection is stored.                                                   *)
C18_GameIsStem ==
  (ingest.phase = "processed") =>
     /\ ingest.stem \o Ext = Basename(ingest.path)
     /\ \A i \in 1..Len(ingest.games) : ingest.games[i] = ingest.stem

QuitLines == {l \in ChatLines : l \in {QuitWord, <<" ", "Q", "u", "i", "t">>}}
SourcesLines ==
  {l \in ChatLines : l \in {SourcesWord, <<"S", "o", "u", "r", "c", "e", "s", " ">>}}
BlankLines == {l \in ChatLines : \A i \in 1..Len(l) : l[i] = " "}
Silent ==
  /\ chat'.asked = chat.asked
  /\ chat'.searched = chat.searched
  /\ chat'.generated = chat.generated
  /\ vectorstore' = vectorstore

(* C19: in the interactive loop of an existing game source display starts  *)
(* off and flips on every `sources` line; `quit` ends the loop; `quit`,    *)
(* `sources` and empty lines trigger no search and no text generation;     *)
(* every other line triggers exactly one query whose return_resources is   *)
(* the current toggle state, so that sources are shown iff `sources` was   *)
(* entered an odd number of times before the question.  Lines are taken as *)
(* the loop takes them: trimmed, commands in any letter case.              *)
C19_ChatLoop ==
  [][/\ (chat.pc = "off" /\ chat'.pc = "prompt") =>
           (~chat'.show_sources /\ chat'.toggles = 0)
     /\ (chat'.pc # "off") => (chat'.show_sources <=> (chat'.toggles % 2 = 1))
     /\ (chat'.lines = chat.lines + 1 /\ chat'.line \in QuitLines) =>
           (chat'.pc = "done" /\ Silent /\ chat'.toggles = chat.toggles)
     /\ (chat'.lines = chat.lines + 1 /\ chat'.line \in SourcesLines) =>
           (chat'.pc = "prompt" /\ Silent /\ chat'.toggles = chat.toggles + 1)
     /\ (chat'.lines = chat.lines + 1 /\ chat'.line \in BlankLines) =>
           (chat'.pc = "prompt" /\ Silent /\ chat'.toggles = chat.toggles)
     /\ (chat'.lines = chat.lines + 1
           /\ chat'.line \notin QuitLines \cup SourcesLines \cup BlankLines) =>
           /\ chat'.pc = "prompt"
           /\ chat'.asked = chat.asked + 1
           /\ chat'.searched = chat.searched + 1
           /\ chat'.generated =
                chat.generated + (IF BagSize(stored[chat.game]) > 0 THEN 1 ELSE 0)
           /\ chat'.rr = chat.show_sources
           /\ chat'.toggles = chat.toggles
           /\ Len(chat'.shown) =
                (IF chat.toggles % 2 = 1
                   THEN Min(chat.k, BagSize(stored[chat.game])) ELSE 0)]_vars

C19_Witness ==
  /\ chat.pc = "done" /\ chat.line \in QuitLines /\ chat.lines = MaxLines
  /\ chat.toggles = 1 /\ chat.asked = 1 /\ chat.shown # <<>>

(* C13: main exits non-zero without starting the server only when the      *)
(* environment check fails, ingestion fails, or (with --skip-processing)   *)
(* no usable vector store exists; whenever process_games runs ingestion    *)
(* over the rulebook files to completion without a fatal error it reports  *)
(* success and main goes on to start the server.                           *)
C13_ExitOnlyOnFailure ==
  /\ (cli.pc = "exit") =>
        \/ ~cli.env_ok
        \/ cli.success = "False"
        \/ (cli.args.skip_processing /\ ~cli.store_ok)
  /\ cli.ran => (cli.success = "True" /\ cli.pc \in {"server", "serving"})

(* C14: with --no-interactive process_games never prompts for or reads     *)
(* user input.                                                             *)
C14_NoInteractiveNoInput ==
  cli.args.no_interactive => cli.reads = 0

(* C15: with --force-recreate and rulebook files present, once             *)
(* process_games has returned create was invoked with force_rebuild=true   *)
(* for every rulebook file and none was skipped.                           *)
C15_ForceRecreatesAll ==
  (cli.args.force_recreate /\ cli.called /\ cli.pc \in {"server", "serving", "exit"}
     /\ cli.errors = <<>> /\ cli.success # "False") =>
        /\ cli.skipped = <<>>
        /\ \A g \in Range(cli.files) : [game |-> g, force |-> TRUE] \in Range(cli.creates)

(* C17: whatever the interleaving of concurrent load, search and           *)
(* search-all requests (no create or delete among them), a game's          *)
(* persisted collection is opened at most once, every request obtains the  *)
(* same handle for a game, the cache holds one handle per game, and the    *)
(* persisted collections stay as they were.                                *)
C17_SingleHandle ==
  [][/\ \A g \in Games :
          /\ serve'.opens[g] <= 1
          /\ Cardinality(serve'.handed[g]) <= 1
          /\ Cardinality({i \in 1..Len(vectorstore') : vectorstore'[i].game = g}) <= 1
          /\ (Has(vectorstore', g) /\ serve'.handed[g] # {}) =>
                serve'.handed[g] = {Get(vectorstore', g)}
     /\ collections' = collections
     /\ stored' = stored]_vars

C17_Witness ==
  /\ serve.reqs[1].state = "active" /\ serve.reqs[1].op = "search_all"
  /\ Head(serve.reqs[1].stack).fn = "load" /\ Head(serve.reqs[1].stack).pc = "assign"
  /\ serve.reqs[2].state = "pending" /\ serve.reqs[2].op = "search"
  /\ Head(serve.reqs[2].stack).game = Head(serve.reqs[1].stack).game
  /\ serve.opens[Head(serve.reqs[1].stack).game] = 1

====
